---- MODULE Spec2Model ----
(***************************************************************************)
(* A model of the reggae-lang front end: the tokenizer of src/src/lex.rs   *)
(* and the recursive-descent parser of src/src/parse.rs, driven the way    *)
(* src/src/main.rs drives them (one text per round, one precedence table   *)
(* shared by every round).                                                 *)
(*                                                                         *)
(* Characters are one-character strings and a text is a sequence of them.  *)
(* The texts of the model are ASCII, so a byte offset of the source (the   *)
(* `pos` of the Lexer, used to slice `src[start..pos]`) is a character     *)
(* count.  Numeric literals of the model stay far below 2^31.              *)
(***************************************************************************)
EXTENDS Integers, Sequences, FiniteSets, TLC

(***************************************************************************)
(* Character classes (char::is_whitespace, char::is_digit(16),             *)
(* char::is_alphanumeric restricted to ASCII).                             *)
(***************************************************************************)
Lower == {"a","b","c","d","e","f","g","h","i","j","k","l","m",
          "n","o","p","q","r","s","t","u","v","w","x","y","z"}

Upper == {"A","B","C","D","E","F","G","H","I","J","K","L","M",
          "N","O","P","Q","R","S","T","U","V","W","X","Y","Z"}

Digit == {"0","1","2","3","4","5","6","7","8","9"}

HexDigit == Digit \cup {"a","b","c","d","e","f","A","B","C","D","E","F"}

\* char::is_whitespace
Whitespace == {" ", "\n", "\t", "\r"}

\* char::is_alphanumeric
Alphanumeric == Lower \cup Upper \cup Digit

\* The character NUL, which `\0` decodes to (no TLA+ string holds it).
NUL == "NUL"

DigitVal(ch) ==
    CASE ch = "0" -> 0 [] ch = "1" -> 1 [] ch = "2" -> 2 [] ch = "3" -> 3
      [] ch = "4" -> 4 [] ch = "5" -> 5 [] ch = "6" -> 6 [] ch = "7" -> 7
      [] ch = "8" -> 8 [] ch = "9" -> 9

(***************************************************************************)
(* f64 values.  A finite value is m * 10^e with m not a multiple of 10     *)
(* (0 is m = 0, e = 0), so equal values have equal representations.        *)
(***************************************************************************)
RECURSIVE Normalize(_, _)
Normalize(m, e) ==
    IF m = 0 THEN [k |-> "fin", m |-> 0, e |-> 0]
    ELSE IF m % 10 = 0 THEN Normalize(m \div 10, e + 1)
    ELSE [k |-> "fin", m |-> m, e |-> e]

NoNum == [k |-> "none", m |-> 0, e |-> 0]

RECURSIVE Pow10(_)
Pow10(n) == IF n <= 0 THEN 1 ELSE 10 * Pow10(n - 1)

\* The decimal value of a run of digits.
RECURSIVE DigitsVal(_)
DigitsVal(ds) ==
    IF ds = <<>> THEN 0
    ELSE 10 * DigitsVal(SubSeq(ds, 1, Len(ds) - 1)) + DigitVal(ds[Len(ds)])

\* The length of the longest prefix of s made of characters of set.
RECURSIVE Span(_, _)
Span(s, set) ==
    IF s # <<>> /\ s[1] \in set THEN 1 + Span(Tail(s), set) ELSE 0

Drop(s, n) == SubSeq(s, n + 1, Len(s))

ToLowerCh(ch) ==
    CASE ch = "I" -> "i" [] ch = "N" -> "n" [] ch = "F" -> "f" [] ch = "A" -> "a"
      [] ch = "T" -> "t" [] ch = "Y" -> "y" [] OTHER -> ch

ToLower(s) == [i \in 1..Len(s) |-> ToLowerCh(s[i])]

(***************************************************************************)
(* str::parse::<f64>, as lex.rs:150 calls it: [sign] (inf | infinity | nan *)
(* | digits [. digits] [(e|E) [sign] digits]) with at least one digit in   *)
(* the mantissa; anything else is an Err.  The stages below each take what *)
(* the stages before them have read.                                       *)
(***************************************************************************)
F64Err == [ok |-> FALSE, num |-> NoNum]

F64Ok(num) == [ok |-> TRUE, num |-> num]

\* The digits of the exponent: ip and fp are the integer and fraction digits,
\* ds what follows the exponent's sign.
F64Exponent(neg, ip, fp, eneg, ds) ==
    IF ds = <<>> \/ Span(ds, Digit) # Len(ds) THEN F64Err
    ELSE F64Ok(Normalize(IF neg THEN 0 - DigitsVal(ip \o fp) ELSE DigitsVal(ip \o fp),
                         (IF eneg THEN 0 - DigitsVal(ds) ELSE DigitsVal(ds)) - Len(fp)))

\* What follows the mantissa: nothing, or an exponent.
F64Tail(neg, ip, fp, r) ==
    IF ip \o fp = <<>> THEN F64Err
    ELSE IF r = <<>>
      THEN F64Ok(Normalize(IF neg THEN 0 - DigitsVal(ip \o fp) ELSE DigitsVal(ip \o fp),
                           0 - Len(fp)))
    ELSE IF r[1] \notin {"e", "E"} THEN F64Err
    ELSE IF Len(r) > 1 /\ r[2] \in {"+", "-"}
      THEN F64Exponent(neg, ip, fp, r[2] = "-", Drop(r, 2))
    ELSE F64Exponent(neg, ip, fp, FALSE, Drop(r, 1))

\* The fraction: r follows the integer digits ip.
F64Fraction(neg, ip, r) ==
    IF r # <<>> /\ r[1] = "."
      THEN F64Tail(neg, ip, SubSeq(r, 2, 1 + Span(Tail(r), Digit)),
                   Drop(r, 1 + Span(Tail(r), Digit)))
      ELSE F64Tail(neg, ip, <<>>, r)

\* The text after the sign.
F64Unsigned(neg, body) ==
    IF ToLower(body) \in {<<"i","n","f">>, <<"i","n","f","i","n","i","t","y">>}
      THEN F64Ok([k |-> IF neg THEN "-inf" ELSE "inf", m |-> 0, e |-> 0])
    ELSE IF ToLower(body) = <<"n","a","n">>
      THEN F64Ok([k |-> "nan", m |-> 0, e |-> 0])
    ELSE F64Fraction(neg, SubSeq(body, 1, Span(body, Digit)),
                     Drop(body, Span(body, Digit)))

ParseF64(s) ==
    IF s # <<>> /\ s[1] \in {"+", "-"} THEN F64Unsigned(s[1] = "-", Tail(s))
    ELSE F64Unsigned(FALSE, s)

(***************************************************************************)
(* Tokens (lex.rs, enum Token).  Ident, Str and Op carry their text, Number *)
(* carries its value; the other kinds carry nothing.                       *)
(***************************************************************************)
Tok(type) == [type |-> type, text |-> <<>>, num |-> NoNum]

Ident(text) == [type |-> "Ident", text |-> text, num |-> NoNum]

Str(text) == [type |-> "Str", text |-> text, num |-> NoNum]

Op(ch) == [type |-> "Op", text |-> <<ch>>, num |-> NoNum]

Number(num) == [type |-> "Number", text |-> <<>>, num |-> num]

\* Lexer::new: `chars` is the number of characters the Peekable<Chars> has
\* yielded, `pos` is the stored position.
Lexer_new(input) == [input |-> input, chars |-> 0, pos |-> 0]

\* What Peekable::peek answers when the text is exhausted.
None == "None"

Peek(input, chars) == IF chars < Len(input) THEN input[chars + 1] ELSE None

\* The keyword table of the identifier branch.
Keyword(text) ==
    CASE text = <<"f","n">> -> Tok("Fn")
      [] text = <<"e","x","t","e","r","n">> -> Tok("Extern")
      [] text = <<"i","f">> -> Tok("If")
      [] text = <<"t","h","e","n">> -> Tok("Then")
      [] text = <<"e","l","s","e">> -> Tok("Else")
      [] text = <<"f","o","r">> -> Tok("For")
      [] text = <<"i","n">> -> Tok("In")
      [] text = <<"u","n","a","r","y">> -> Tok("Unary")
      [] text = <<"b","i","n","a","r","y">> -> Tok("Binary")
      [] text = <<"v","a","r">> -> Tok("Var")
      [] text = <<"m","o","t">> -> Tok("Mot")
      [] text = <<"l","r","u">> -> Tok("Lru")
      [] text = <<"m","r","u">> -> Tok("Mru")
      [] text = <<"l","f","u">> -> Tok("Lfu")
      [] text = <<"m","f","u">> -> Tok("Mfu")
      [] OTHER -> Ident(text)

\* Lexer::read_escaped_char, reading after `chars` characters.
read_escaped_char(input, chars) ==
    IF chars >= Len(input)
      THEN [res |-> "Err", ch |-> None, chars |-> chars, err |-> "no input"]
    ELSE IF input[chars + 1] # "\\"
      THEN [res |-> "Ok", ch |-> input[chars + 1], chars |-> chars + 1, err |-> ""]
    ELSE IF chars + 1 >= Len(input)
      THEN [res |-> "Err", ch |-> None, chars |-> chars + 1, err |-> "no input"]
    ELSE LET c  == input[chars + 2]
             ok(d) == [res |-> "Ok", ch |-> d, chars |-> chars + 2, err |-> ""]
         IN  CASE c = "\\" -> ok("\\")
               [] c = "n"  -> ok("\n")
               [] c = "t"  -> ok("\t")
               [] c = "r"  -> ok("\r")
               [] c = "\"" -> ok("\"")
               [] c = "'"  -> ok("'")
               [] c = "0"  -> ok(NUL)
               [] c \in {"e", "v", "x", "u"} ->
                    [res |-> "Panic", ch |-> None, chars |-> chars + 2,
                     err |-> "not implemented"]
               [] OTHER ->
                    [res |-> "Err", ch |-> None, chars |-> chars + 2,
                     err |-> "unknown escape char"]

\* The `while let Ok(ch) = self.read_escaped_char()` loop of the string branch:
\* "Return" is the `return Ok(Token::Str(value))` inside the loop, "Err" the
\* fall-through to Err("unclosed string").
RECURSIVE StringLoop(_, _, _)
StringLoop(input, chars, value) ==
    LET r == read_escaped_char(input, chars)
    IN  IF r.res = "Ok"
          THEN IF r.ch # "\""
                 THEN StringLoop(input, r.chars, Append(value, r.ch))
                 ELSE [res |-> "Return", value |-> value, chars |-> r.chars]
        ELSE IF r.res = "Panic"
          THEN [res |-> "Panic", value |-> value, chars |-> r.chars]
        ELSE [res |-> "Err", value |-> value, chars |-> r.chars]

\* The first index i of s with s[i] = "*" and s[i+1] = "/", or 0.
RECURSIVE FindClose(_, _)
FindClose(s, i) ==
    IF i > Len(s) THEN 0
    ELSE IF s[i] = "*" /\ i < Len(s) /\ s[i + 1] = "/" THEN i
    ELSE FindClose(s, i + 1)

\* The first index i of s with s[i] = ch, or 0.
RECURSIVE FindChar(_, _, _)
FindChar(s, ch, i) ==
    IF i > Len(s) THEN 0
    ELSE IF s[i] = ch THEN i
    ELSE FindChar(s, ch, i + 1)

LexOut(res, tok, err, lx) == [res |-> res, tok |-> tok, err |-> err, lx |-> lx]

(***************************************************************************)
(* Lexer::lex.  res is "Ok" (tok is the token), "Err" (err is the message), *)
(* "Panic" (an unwrap of a failed parse, or unimplemented!) or "Hang" (a   *)
(* comment loop that has exhausted the text: chars.next() is None for ever, *)
(* the loop's exit test never holds and only `pos` changes).  lx is the    *)
(* lexer after the call.                                                   *)
(***************************************************************************)
lex(lx) ==
    LET input == lx.input
        ws    == Span(Drop(input, lx.chars), Whitespace)
        c0    == lx.chars + ws
        start == lx.pos + ws
        next  == input[c0 + 1]
        c1    == c0 + 1
        pos1  == start + 1
        rest  == Drop(input, c1)
        done(tok, chars, pos) ==
            LexOut("Ok", tok, "", [input |-> input, chars |-> chars, pos |-> pos])
        early(tok, chars) ==
            LexOut("Ok", tok, "", [input |-> input, chars |-> chars, pos |-> lx.pos])
        stuck(res, err, chars) ==
            LexOut(res, Tok("EOF"), err,
                   [input |-> input, chars |-> chars, pos |-> lx.pos])
    IN  IF c0 >= Len(input) THEN done(Tok("EOF"), c0, start)
        ELSE CASE next = "(" -> done(Tok("LParen"), c1, pos1)
          [] next = ")" -> done(Tok("RParen"), c1, pos1)
          [] next = "{" -> done(Tok("LBrace"), c1, pos1)
          [] next = "}" -> done(Tok("RBrace"), c1, pos1)
          [] next = "," -> done(Tok("Comma"), c1, pos1)
          [] next = "!" -> done(Tok("Bang"), c1, pos1)
          [] next = ":" -> done(Tok("Colon"), c1, pos1)
          [] next = "\"" ->
               LET s == StringLoop(input, c1, <<>>)
               IN  CASE s.res = "Return" -> early(Str(s.value), s.chars)
                     [] s.res = "Panic" -> stuck("Panic", "not implemented", s.chars)
                     [] OTHER ->
                          LexOut("Err", Tok("EOF"), "unclosed string",
                                 [input |-> input, chars |-> s.chars, pos |-> pos1])
          [] next \in Digit \cup {"."} ->
               LET n == Span(rest, HexDigit \cup {"."})
                   f == ParseF64(SubSeq(input, start + 1, pos1 + n))
               IN  IF c1 + n >= Len(input) THEN early(Tok("EOF"), c1 + n)
                   ELSE IF f.ok THEN done(Number(f.num), c1 + n, pos1 + n)
                   ELSE stuck("Panic", "called unwrap on an Err value", c1 + n)
          [] next = "/" ->
               IF Peek(input, c1) = "/"
                 THEN LET j == FindChar(rest, "\n", 1)
                      IN  IF j = 0 THEN stuck("Hang", "", Len(input))
                          ELSE done(Tok("Comment"), c1 + j, pos1 + j)
               ELSE IF Peek(input, c1) = "*"
                 THEN LET i == FindClose(rest, 1)
                      IN  IF i = 0 THEN stuck("Hang", "", Len(input))
                          ELSE done(Tok("Comment"), c1 + i + 1, pos1 + i)
               ELSE done(Op("/"), c1, pos1)
          [] next \in Lower \cup Upper \cup {"_"} ->
               LET n == Span(rest, Alphanumeric \cup {"_", ","})
               IN  IF c1 + n >= Len(input) THEN early(Tok("EOF"), c1 + n)
                   ELSE done(Keyword(SubSeq(input, start + 1, pos1 + n)),
                             c1 + n, pos1 + n)
          [] OTHER -> done(Op(next), c1, pos1)

\* Iterator::next for Lexer: "Some" with the token, "None" on EOF or on an
\* error; a panic or a hang of lex() is one of next().
NextOf(l) ==
    CASE l.res = "Ok" /\ l.tok.type # "EOF" ->
           [res |-> "Some", tok |-> l.tok, lx |-> l.lx]
      [] l.res \in {"Panic", "Hang"} ->
           [res |-> l.res, tok |-> Tok("EOF"), lx |-> l.lx]
      [] OTHER -> [res |-> "None", tok |-> Tok("EOF"), lx |-> l.lx]

Lexer_next(lx) == NextOf(lex(lx))

\* `lexer.by_ref().collect()`: next() until it answers None.
RECURSIVE collect(_, _)
collect(lx, tokens) ==
    LET n == Lexer_next(lx)
    IN  IF n.res = "Some" THEN collect(n.lx, Append(tokens, n.tok))
        ELSE [res |-> n.res, tokens |-> tokens, lx |-> n.lx]


(***************************************************************************)
(* The AST (parse.rs, enum Expr, struct Prototype, struct Function, enum   *)
(* Cache).  Names are texts; an Option is a sequence of length 0 or 1.     *)
(***************************************************************************)
Expr_Binary(op, left, right) ==
    [e |-> "Binary", op |-> op, left |-> left, right |-> right]

Expr_Call(fn_name, args, bang) ==
    [e |-> "Call", fn_name |-> fn_name, args |-> args, bang |-> bang]

Expr_Conditional(cond, consequence, alternative) ==
    [e |-> "Conditional", cond |-> cond, consequence |-> consequence,
     alternative |-> alternative]

Expr_For(var_name, start, end, step, body) ==
    [e |-> "For", var_name |-> var_name, start |-> start, end |-> end,
     step |-> step, body |-> body]

Expr_Number(num) == [e |-> "Number", num |-> num]

Expr_Str(text) == [e |-> "Str", text |-> text]

Expr_Variable(name) == [e |-> "Variable", name |-> name]

Expr_VarIn(variables, body) ==
    [e |-> "VarIn", variables |-> variables, body |-> body]

Prototype(name, args, is_op, prec) ==
    [name |-> name, args |-> args, is_op |-> is_op, prec |-> prec]

Function(prototype, body, is_anon, cache) ==
    [prototype |-> prototype, body |-> body, is_anon |-> is_anon, cache |-> cache]

Cache(policy, capacity) == [policy |-> policy, capacity |-> capacity]

ANONYMOUS_FUNCTION_NAME == <<"a","n","o","n","y","m","o","u","s">>

(***************************************************************************)
(* Casts.  `f as usize` and `f as isize` truncate toward zero and          *)
(* saturate, NaN giving 0.  The saturated results (of an infinity, or of a *)
(* literal beyond the integer range) are not integers of the model: the    *)
(* casts are left undefined there, and no text of the model reaches them.  *)
(* `u as i32` keeps the low 32 bits, which leaves every usize below 2^31   *)
(* as it is.                                                               *)
(***************************************************************************)
Trunc(num) ==
    IF num.e >= 0 THEN num.m * Pow10(num.e)
    ELSE IF num.m >= 0 THEN num.m \div Pow10(0 - num.e)
    ELSE 0 - ((0 - num.m) \div Pow10(0 - num.e))

AsUsize(num) ==
    CASE num.k = "fin" -> IF num.m < 0 THEN 0 ELSE Trunc(num)
      [] num.k = "nan" -> 0
      [] num.k = "-inf" -> 0

AsIsize(num) ==
    CASE num.k = "fin" -> Trunc(num)
      [] num.k = "nan" -> 0

AsI32(u) == CASE u >= 0 -> u

(***************************************************************************)
(* The Parser: p = [tokens, pos, prec].  Every operation answers           *)
(* [r, p, v, msg]: r is "Ok" (v is the value), "Err" (msg is the message)   *)
(* or "Panic" (tokens[pos] was read with pos >= tokens.len()); p is the    *)
(* parser after the operation, whatever r is.                              *)
(***************************************************************************)
Unit == [e |-> "Unit"]

POk(p, v) == [r |-> "Ok", p |-> p, v |-> v, msg |-> <<>>]

PErr(p, msg) == [r |-> "Err", p |-> p, v |-> Unit, msg |-> msg]

PPanic(p) == [r |-> "Panic", p |-> p, v |-> Unit, msg |-> <<"index out of bounds">>]

EndOfFile == <<"Unexpected end of file.">>

InBounds(p) == p.pos < Len(p.tokens)

\* Parser::curr where InBounds(p); the callers answer PPanic(p) elsewhere.
curr(p) == p.tokens[p.pos + 1]

current(p) == IF p.pos >= Len(p.tokens) THEN PErr(p, EndOfFile) ELSE POk(p, curr(p))

advance(p) ==
    LET np == [p EXCEPT !.pos = p.pos + 1]
    IN  IF np.pos < Len(p.tokens) THEN POk(np, Unit) ELSE PErr(np, EndOfFile)

at_end(p) == p.pos >= Len(p.tokens)

\* Parser::eat for the payload-free token kinds it is called with; {:?} of a
\* token is rendered as its kind.
eat(p, type) ==
    IF ~InBounds(p) THEN PPanic(p)
    ELSE IF curr(p).type = type THEN advance(p)
    ELSE PErr(p, <<"Expecting ", type, " but found ", curr(p).type, ".">>)

\* get_tok_precedence with the unknown operator taken for no operator.
get_tok_precedence_unknown(p) ==
    IF InBounds(p) /\ curr(p).type = "Op"
      THEN IF curr(p).text[1] \in DOMAIN p.prec THEN p.prec[curr(p).text[1]] ELSE -1
      ELSE -1

get_tok_precedence(p) ==
    IF InBounds(p) /\ curr(p).type = "Op"
      THEN IF curr(p).text[1] \in DOMAIN p.prec THEN p.prec[curr(p).text[1]] ELSE 100
      ELSE -1

\* An insert that keeps the value of a key the map already has.
Insert_if_absent(map, key, value) ==
    [k \in DOMAIN map \cup {key} |-> IF k \in DOMAIN map THEN map[k] ELSE value]

\* HashMap::insert
Insert(map, key, value) ==
    [k \in DOMAIN map \cup {key} |-> IF k = key THEN value ELSE map[k]]

\* The name, is_operator, precedence match that opens parse_prototype.
PrototypeHead(p) ==
    IF ~InBounds(p) THEN PPanic(p)
    ELSE CASE curr(p).type = "Ident" ->
           LET a == advance(p)
           IN  IF a.r # "Ok" THEN a
               ELSE POk(a.p, [id |-> curr(p).text, is_op |-> FALSE, prec |-> 0])
      [] curr(p).type = "Binary" ->
           LET a1 == advance(p)
           IN  IF a1.r # "Ok" THEN a1
               ELSE IF curr(a1.p).type # "Op"
                 THEN PErr(a1.p, <<"Expected operator in custom operator declaration.">>)
               ELSE
           LET op == curr(a1.p).text[1]
               a2 == advance(a1.p)
           IN  IF a2.r # "Ok" THEN a2
               ELSE
           LET isNum == curr(a2.p).type = "Number"
               a3    == advance(a2.p)
               prec  == IF isNum THEN AsUsize(curr(a2.p).num) ELSE 0
               p3    == IF isNum THEN a3.p ELSE a2.p
           IN  IF isNum /\ a3.r # "Ok" THEN a3
               ELSE POk([p3 EXCEPT !.prec = Insert(@, op, AsI32(prec))],
                        [id |-> <<"b","i","n","a","r","y">> \o <<op>>,
                         is_op |-> TRUE, prec |-> prec])
      [] curr(p).type = "Unary" ->
           LET a1 == advance(p)
           IN  IF a1.r # "Ok" THEN a1
               ELSE IF curr(a1.p).type # "Op"
                 THEN PErr(a1.p, <<"Expected operator in custom operator declaration.">>)
               ELSE
           LET op == curr(a1.p).text[1]
               a2 == advance(a1.p)
           IN  IF a2.r # "Ok" THEN a2
               ELSE POk(a2.p, [id |-> <<"u","n","a","r","y">> \o <<op>>,
                               is_op |-> TRUE, prec |-> 0])
      [] OTHER -> PErr(p, <<"Expected identifier in prototype declaration.">>)

\* The parameter loop of parse_prototype; answers the parameter list.
RECURSIVE PrototypeArgs(_, _)
PrototypeArgs(p, args) ==
    IF ~InBounds(p) THEN PPanic(p)
    ELSE IF curr(p).type # "Ident"
      THEN PErr(p, <<"Expected identifier in parameter declaration.">>)
    ELSE
    LET a1 == advance(p)
        e  == eat(a1.p, "Colon")
    IN  IF e.r = "Panic" THEN e
        ELSE IF ~InBounds(e.p) THEN PPanic(e.p)
        ELSE IF curr(e.p).type # "Ident" THEN PErr(e.p, <<"Expected type">>)
        ELSE
    LET args2 == Append(args, <<curr(p).text, curr(e.p).text>>)
        a2    == advance(e.p)
    IN  IF a2.r # "Ok" THEN a2
        ELSE IF curr(a2.p).type = "RParen" THEN POk(advance(a2.p).p, args2)
        ELSE IF curr(a2.p).type = "Comma" THEN PrototypeArgs(advance(a2.p).p, args2)
        ELSE PErr(a2.p, <<"Expected ',' or ')' character in prototype declaration.">>)

parse_prototype(p) ==
    LET h == PrototypeHead(p)
    IN  IF h.r # "Ok" THEN h
        ELSE
    LET e == eat(h.p, "LParen")
    IN  IF e.r = "Panic" THEN e
        ELSE IF ~InBounds(e.p) THEN PPanic(e.p)
        ELSE IF curr(e.p).type = "RParen"
          THEN POk(advance(e.p).p, Prototype(h.v.id, <<>>, h.v.is_op, h.v.prec))
        ELSE
    LET l == PrototypeArgs(e.p, <<>>)
    IN  IF l.r # "Ok" THEN l
        ELSE POk(l.p, Prototype(h.v.id, l.v, h.v.is_op, h.v.prec))

parse_number(p) ==
    IF ~InBounds(p) THEN PPanic(p)
    ELSE IF curr(p).type = "Number" THEN POk(advance(p).p, AsIsize(curr(p).num))
    ELSE PErr(p, <<"Expected number literal.">>)

parse_nb_expr(p) ==
    IF ~InBounds(p) THEN PPanic(p)
    ELSE IF curr(p).type = "Number" THEN POk(advance(p).p, Expr_Number(curr(p).num))
    ELSE PErr(p, <<"Expected number literal.">>)

(***************************************************************************)
(* Expressions.                                                            *)
(***************************************************************************)
\* The productions of an expression call one another; every such call goes
\* through Production, the one recursive operator: rec_f is a call of f.
RECURSIVE Production(_, _, _)

rec_parse_expr(p) == Production("parse_expr", p, <<>>)

rec_parse_unary_expr(p) == Production("parse_unary_expr", p, <<>>)

rec_parse_primary(p) == Production("parse_primary", p, <<>>)

rec_parse_id_expr(p) == Production("parse_id_expr", p, <<>>)

rec_parse_paren_expr(p) == Production("parse_paren_expr", p, <<>>)

rec_parse_conditional_expr(p) == Production("parse_conditional_expr", p, <<>>)

rec_parse_for_expr(p) == Production("parse_for_expr", p, <<>>)

rec_parse_var_expr(p) == Production("parse_var_expr", p, <<>>)

rec_CallArgs(p, args) == Production("CallArgs", p, <<args>>)

rec_VarLoop(p, variables) == Production("VarLoop", p, <<variables>>)

rec_parse_binary_expr(p, prec, left) ==
    Production("parse_binary_expr", p, <<prec, left>>)

parse_expr(p) ==
    LET u == rec_parse_unary_expr(p)
    IN  IF u.r = "Ok" THEN rec_parse_binary_expr(u.p, 0, u.v) ELSE u

\* The argument loop of a call; answers the argument list with the cursor on
\* the `)`.
CallArgs(p, args) ==
    LET x == rec_parse_expr(p)
    IN  IF x.r # "Ok" THEN x
        ELSE
    LET args2 == Append(args, x.v)
        c     == current(x.p)
    IN  IF c.r # "Ok" THEN c
        ELSE IF c.v.type = "RParen" THEN POk(x.p, args2)
        ELSE IF c.v.type # "Comma"
          THEN PErr(x.p, <<"Expected ',' character in function call.">>)
        ELSE
    LET a == advance(x.p)
    IN  IF a.r # "Ok" THEN a ELSE rec_CallArgs(a.p, args2)

parse_id_expr(p) ==
    IF ~InBounds(p) THEN PPanic(p)
    ELSE IF curr(p).type # "Ident" THEN PErr(p, <<"Expected identifier.">>)
    ELSE
    LET id == curr(p).text
        a  == advance(p)
    IN  IF a.r # "Ok" THEN POk(a.p, Expr_Variable(id))
        ELSE IF curr(a.p).type # "LParen" THEN POk(a.p, Expr_Variable(id))
        ELSE
    LET a1 == advance(a.p)
    IN  IF a1.r # "Ok" THEN a1
        ELSE IF curr(a1.p).type = "RParen"
          THEN LET a2 == advance(a1.p)
               IN  IF a2.r # "Ok" THEN a2
                   ELSE POk(a2.p, Expr_Call(id, <<>>, curr(a2.p).type = "Bang"))
        ELSE
    LET l  == rec_CallArgs(a1.p, <<>>)
        a3 == advance(l.p)
    IN  IF l.r # "Ok" THEN l
        ELSE IF ~InBounds(a3.p) THEN PPanic(a3.p)
        ELSE POk(a3.p, Expr_Call(id, l.v, curr(a3.p).type = "Bang"))

parse_paren_expr(p) ==
    LET c == current(p)
    IN  IF c.r # "Ok" THEN c
        ELSE IF c.v.type # "LParen"
          THEN PErr(p, <<"Expected '(' character at start of parenthesized expression.">>)
        ELSE
    LET a == advance(p)
    IN  IF a.r # "Ok" THEN a
        ELSE
    LET x == rec_parse_expr(a.p)
    IN  IF x.r # "Ok" THEN x
        ELSE
    LET c2 == current(x.p)
    IN  IF c2.r # "Ok" THEN c2
        ELSE IF c2.v.type # "RParen"
          THEN PErr(x.p, <<"Expected ')' character at end of parenthesized expression.">>)
        ELSE POk(advance(x.p).p, x.v)

parse_unary_expr(p) ==
    LET c == current(p)
    IN  IF c.r # "Ok" THEN c
        ELSE IF c.v.type \notin {"Bang", "Op"} THEN rec_parse_primary(p)
        ELSE
    LET op == IF c.v.type = "Bang" THEN "!" ELSE c.v.text[1]
        a  == advance(p)
    IN  IF a.r # "Ok" THEN a
        ELSE
    LET x == rec_parse_unary_expr(a.p)
    IN  IF x.r # "Ok" THEN x
        ELSE POk(x.p, Expr_Call(<<"u","n","a","r","y">> \o <<op>>, <<x.v>>, FALSE))

parse_binary_expr(p, prec, left) ==
    LET curr_prec == get_tok_precedence(p)
    IN  IF curr_prec < prec \/ at_end(p) THEN POk(p, left)
        ELSE IF curr(p).type # "Op" THEN PErr(p, <<"Invalid operator.">>)
        ELSE
    LET op == curr(p).text[1]
        a  == advance(p)
    IN  IF a.r # "Ok" THEN a
        ELSE
    LET u == rec_parse_unary_expr(a.p)
    IN  IF u.r # "Ok" THEN u
        ELSE
    LET next_prec == get_tok_precedence(u.p)
        right     == IF curr_prec < next_prec
                       THEN rec_parse_binary_expr(u.p, curr_prec + 1, u.v)
                       ELSE u
    IN  IF right.r # "Ok" THEN right
        ELSE rec_parse_binary_expr(right.p, prec, Expr_Binary(op, left, right.v))

parse_conditional_expr(p) ==
    LET a == advance(p)
    IN  IF a.r # "Ok" THEN a
        ELSE
    LET cond == rec_parse_expr(a.p)
    IN  IF cond.r # "Ok" THEN cond
        ELSE IF ~(InBounds(cond.p) /\ curr(cond.p).type = "Then")
          THEN PErr(cond.p, <<"Expected 'then' keyword.">>)
        ELSE
    LET a2 == advance(cond.p)
    IN  IF a2.r # "Ok" THEN a2
        ELSE
    LET then == rec_parse_expr(a2.p)
    IN  IF then.r # "Ok" THEN then
        ELSE IF ~(InBounds(then.p) /\ curr(then.p).type = "Else")
          THEN PErr(then.p, <<"Expected 'else' keyword.">>)
        ELSE
    LET a3 == advance(then.p)
    IN  IF a3.r # "Ok" THEN a3
        ELSE
    LET otherwise == rec_parse_expr(a3.p)
    IN  IF otherwise.r # "Ok" THEN otherwise
        ELSE POk(otherwise.p, Expr_Conditional(cond.v, then.v, otherwise.v))

parse_for_expr(p) ==
    LET a == advance(p)
    IN  IF a.r # "Ok" THEN a
        ELSE IF curr(a.p).type # "Ident"
          THEN PErr(a.p, <<"Expected identifier in for loop.">>)
        ELSE
    LET name == curr(a.p).text
        a2   == advance(a.p)
    IN  IF a2.r # "Ok" THEN a2
        ELSE IF curr(a2.p) # Op("=")
          THEN PErr(a2.p, <<"Expected '=' character in for loop.">>)
        ELSE
    LET a3 == advance(a2.p)
    IN  IF a3.r # "Ok" THEN a3
        ELSE
    LET start == rec_parse_expr(a3.p)
    IN  IF start.r # "Ok" THEN start
        ELSE
    LET c == current(start.p)
    IN  IF c.r # "Ok" THEN c
        ELSE IF c.v.type # "Comma"
          THEN PErr(start.p, <<"Expected ',' character in for loop.">>)
        ELSE
    LET a4 == advance(start.p)
    IN  IF a4.r # "Ok" THEN a4
        ELSE
    LET end == rec_parse_expr(a4.p)
    IN  IF end.r # "Ok" THEN end
        ELSE
    LET c2 == current(end.p)
    IN  IF c2.r # "Ok" THEN c2
        ELSE
    LET hasStep == c2.v.type = "Comma"
        a5      == advance(end.p)
        sx      == rec_parse_expr(a5.p)
        step    == IF ~hasStep THEN POk(end.p, <<>>)
                   ELSE IF a5.r # "Ok" THEN a5
                   ELSE IF sx.r # "Ok" THEN sx
                   ELSE POk(sx.p, <<sx.v>>)
    IN  IF step.r # "Ok" THEN step
        ELSE
    LET c3 == current(step.p)
    IN  IF c3.r # "Ok" THEN c3
        ELSE IF c3.v.type # "In"
          THEN PErr(step.p, <<"Expected 'in' keyword in for loop.">>)
        ELSE
    LET a6 == advance(step.p)
    IN  IF a6.r # "Ok" THEN a6
        ELSE
    LET body == rec_parse_expr(a6.p)
    IN  IF body.r # "Ok" THEN body
        ELSE POk(body.p, Expr_For(name, start.v, end.v, step.v, body.v))

\* The variable loop of parse_var_expr; answers the list of (name, optional
\* initializer) with the cursor after `in`.
VarLoop(p, variables) ==
    IF ~InBounds(p) THEN PPanic(p)
    ELSE IF curr(p).type # "Ident"
      THEN PErr(p, <<"Expected identifier in 'var..in' declaration.">>)
    ELSE
    LET name == curr(p).text
        a    == advance(p)
    IN  IF a.r # "Ok" THEN a
        ELSE
    LET hasInit == curr(a.p) = Op("=")
        a2      == advance(a.p)
        ix      == rec_parse_expr(a2.p)
        init    == IF ~hasInit THEN POk(a.p, <<>>)
                   ELSE IF a2.r # "Ok" THEN a2
                   ELSE IF ix.r # "Ok" THEN ix
                   ELSE POk(ix.p, <<ix.v>>)
    IN  IF init.r # "Ok" THEN init
        ELSE IF ~InBounds(init.p) THEN PPanic(init.p)
        ELSE
    LET vars2 == Append(variables, [name |-> name, initializer |-> init.v])
        a3    == advance(init.p)
    IN  IF curr(init.p).type \notin {"Comma", "In"}
          THEN PErr(init.p, <<"Expected comma or 'in' keyword in variable declaration.">>)
        ELSE IF a3.r # "Ok" THEN a3
        ELSE IF curr(init.p).type = "Comma" THEN rec_VarLoop(a3.p, vars2)
        ELSE POk(a3.p, vars2)

parse_var_expr(p) ==
    LET a == advance(p)
    IN  IF a.r # "Ok" THEN a
        ELSE
    LET l == rec_VarLoop(a.p, <<>>)
    IN  IF l.r # "Ok" THEN l
        ELSE
    LET body == rec_parse_expr(l.p)
    IN  IF body.r # "Ok" THEN body
        ELSE POk(body.p, Expr_VarIn(l.v, body.v))

parse_primary(p) ==
    IF ~InBounds(p) THEN PPanic(p)
    ELSE CASE curr(p).type = "Ident" -> rec_parse_id_expr(p)
      [] curr(p).type = "Str" ->
           LET a == advance(p)
           IN  IF a.r # "Ok" THEN a ELSE POk(a.p, Expr_Str(curr(p).text))
      [] curr(p).type = "Number" -> parse_nb_expr(p)
      [] curr(p).type = "LParen" -> rec_parse_paren_expr(p)
      [] curr(p).type = "If" -> rec_parse_conditional_expr(p)
      [] curr(p).type = "For" -> rec_parse_for_expr(p)
      [] curr(p).type = "Var" -> rec_parse_var_expr(p)
      [] OTHER -> PErr(p, <<"Unknown expression.">>)

Production(fn, p, a) ==
    CASE fn = "parse_expr" -> parse_expr(p)
      [] fn = "parse_unary_expr" -> parse_unary_expr(p)
      [] fn = "parse_primary" -> parse_primary(p)
      [] fn = "parse_id_expr" -> parse_id_expr(p)
      [] fn = "parse_paren_expr" -> parse_paren_expr(p)
      [] fn = "parse_conditional_expr" -> parse_conditional_expr(p)
      [] fn = "parse_for_expr" -> parse_for_expr(p)
      [] fn = "parse_var_expr" -> parse_var_expr(p)
      [] fn = "CallArgs" -> CallArgs(p, a[1])
      [] fn = "VarLoop" -> VarLoop(p, a[1])
      [] fn = "parse_binary_expr" -> parse_binary_expr(p, a[1], a[2])

(***************************************************************************)
(* Top-level units.                                                        *)
(***************************************************************************)
\* The `let cache = match self.curr()` of parse_def.
DefCache(p) ==
    IF ~InBounds(p) THEN PPanic(p)
    ELSE CASE curr(p).type \in {"Lru", "Mru", "Lfu", "Mfu"} ->
           LET a == advance(p)
               n == parse_number(advance(a.p).p)
           IN  IF a.r # "Ok" THEN a
               ELSE IF curr(a.p).type # "Bang" THEN POk(a.p, Cache(curr(p).type, -1))
               ELSE IF n.r # "Ok" THEN n
               ELSE POk(n.p, Cache(curr(p).type, n.v))
      [] curr(p).type = "Fn" -> POk(p, Cache("Lru", -1))
      [] OTHER -> PErr(p, <<"Wrong function decl keyword">>)

\* parse_def from the closing brace on: body is the result of parse_expr.
DefEnd(cache, proto, body) ==
    IF body.r # "Ok" THEN body
    ELSE IF eat(body.p, "RBrace").r = "Panic" THEN eat(body.p, "RBrace")
    ELSE POk(eat(body.p, "RBrace").p, Function(proto, <<body.v>>, FALSE, cache))

\* parse_def from the opening brace on: proto is the result of parse_prototype.
DefBody(cache, proto) ==
    IF proto.r # "Ok" THEN proto
    ELSE IF eat(proto.p, "LBrace").r = "Panic" THEN eat(proto.p, "LBrace")
    ELSE DefEnd(cache, proto.v, parse_expr(eat(proto.p, "LBrace").p))

\* parse_def from `self.advance()?` on: cache is the result of the match.
DefSignature(cache) ==
    IF cache.r # "Ok" THEN cache
    ELSE IF advance(cache.p).r # "Ok" THEN advance(cache.p)
    ELSE DefBody(cache.v, parse_prototype(advance(cache.p).p))

parse_def(p) == DefSignature(DefCache(p))

\* The Function parse_extern returns for the prototype it parsed.
ExternFunction(proto) ==
    IF proto.r # "Ok" THEN proto
    ELSE POk(proto.p, Function(proto.v, <<>>, FALSE, Cache("None", 0)))

parse_extern(p) == ExternFunction(parse_prototype([p EXCEPT !.pos = p.pos + 1]))

\* The anonymous Function parse_toplevel_expr returns for the expression.
AnonymousFunction(x) ==
    IF x.r # "Ok" THEN x
    ELSE POk(x.p, Function(Prototype(ANONYMOUS_FUNCTION_NAME, <<>>, FALSE, 0),
                           <<x.v>>, TRUE, Cache("None", 0)))

parse_toplevel_expr(p) == AnonymousFunction(parse_expr(p))

\* The `match result` of Parser::parse.
ParseEnd(result) ==
    IF result.r # "Ok" THEN result
    ELSE IF ~at_end(result.p)
      THEN PErr(result.p, <<"Unexpected token after parsed expression.">>)
    ELSE result

\* Parser::parse
parse(p) ==
    IF current(p).r # "Ok" THEN current(p)
    ELSE CASE current(p).v.type \in {"Fn", "Lru", "Mru", "Lfu", "Mfu"} ->
                ParseEnd(parse_def(p))
           [] current(p).v.type = "Extern" -> ParseEnd(parse_extern(p))
           [] OTHER -> ParseEnd(parse_toplevel_expr(p))

\* Parser::new: "Ok" with the parser, or the panic or hang of the tokenizer.
Parser_new(input, op_precedence) ==
    LET c == collect(Lexer_new(input), <<>>)
    IN  [res |-> IF c.res = "None" THEN "Ok" ELSE c.res,
         p   |-> [tokens |-> c.tokens, pos |-> 0, prec |-> op_precedence]]

(***************************************************************************)
(* The texts the model reads.                                              *)
(***************************************************************************)
\* fn f(\n
T_proto_open ==
    <<"f","n"," ","f","(","\n">>

\* extern\n
T_extern_only ==
    <<"e","x","t","e","r","n","\n">>

\* f(x)\n
T_call_args ==
    <<"f","(","x",")","\n">>

\* fn f() { 1\n
T_def_no_rbrace ==
    <<"f","n"," ","f","(",")"," ","{"," ","1","\n">>

\* fn f() { 1 )\n
T_def_wrong_rbrace ==
    <<"f","n"," ","f","(",")"," ","{"," ","1"," ",")","\n">>

\* fn f() { 1 }\n
T_def_ok ==
    <<"f","n"," ","f","(",")"," ","{"," ","1"," ","}","\n">>

\* fn f(x: num , y: num) { x }\n
T_def_params ==
    <<"f","n"," ","f","(","x",":"," ","n","u","m"," ",","," ","y",":"," ",
      "n","u","m",")"," ","{"," ","x"," ","}","\n">>

\* fn f(x num) { 1 }\n
T_def_no_colon ==
    <<"f","n"," ","f","(","x"," ","n","u","m",")"," ","{"," ","1"," ","}",
      "\n">>

\* fn f() 1 }\n
T_def_no_lbrace ==
    <<"f","n"," ","f","(",")"," ","1"," ","}","\n">>

\* fn f x: num) { 1 }\n
T_def_no_lparen ==
    <<"f","n"," ","f"," ","x",":"," ","n","u","m",")"," ","{"," ","1"," ",
      "}","\n">>

\* binary| 5 (a: num, b: num) { a }
T_binary_spec ==
    <<"b","i","n","a","r","y","|"," ","5"," ","(","a",":"," ","n","u","m",
      ","," ","b",":"," ","n","u","m",")"," ","{"," ","a"," ","}">>

\* fn binary| 5 (a: num, b: num) { a }\n
T_fn_binary_comma ==
    <<"f","n"," ","b","i","n","a","r","y","|"," ","5"," ","(","a",":"," ",
      "n","u","m",","," ","b",":"," ","n","u","m",")"," ","{"," ","a"," ",
      "}","\n">>

\* fn binary| 5 (a: num , b: num) { a }\n
T_fn_binary_5 ==
    <<"f","n"," ","b","i","n","a","r","y","|"," ","5"," ","(","a",":"," ",
      "n","u","m"," ",","," ","b",":"," ","n","u","m",")"," ","{"," ","a",
      " ","}","\n">>

\* fn binary| (a: num , b: num) { a }\n
T_fn_binary_0 ==
    <<"f","n"," ","b","i","n","a","r","y","|"," ","(","a",":"," ","n","u",
      "m"," ",","," ","b",":"," ","n","u","m",")"," ","{"," ","a"," ","}",
      "\n">>

\* fn binary+ 50 (a: num , b: num) { a }\n
T_fn_binary_plus ==
    <<"f","n"," ","b","i","n","a","r","y","+"," ","5","0"," ","(","a",":",
      " ","n","u","m"," ",","," ","b",":"," ","n","u","m",")"," ","{"," ",
      "a"," ","}","\n">>

\* fn binary< 30 (a\n
T_fn_binary_err ==
    <<"f","n"," ","b","i","n","a","r","y","<"," ","3","0"," ","(","a","\n">>

\* fn unary- (a: num) { a }\n
T_fn_unary ==
    <<"f","n"," ","u","n","a","r","y","-"," ","(","a",":"," ","n","u","m",
      ")"," ","{"," ","a"," ","}","\n">>

\* 1 | 2 + 3\n
T_bar_plus ==
    <<"1"," ","|"," ","2"," ","+"," ","3","\n">>

\* extern foo(x: num)\n
T_extern_foo ==
    <<"e","x","t","e","r","n"," ","f","o","o","(","x",":"," ","n","u","m",
      ")","\n">>

\* foo "abc
T_ident_unclosed ==
    <<"f","o","o"," ","\"","a","b","c">>

\* "abc
T_unclosed ==
    <<"\"","a","b","c">>

\* // c
T_line_comment ==
    <<"/","/"," ","c">>

\* // c\n
T_line_comment_nl ==
    <<"/","/"," ","c","\n">>

\* /* c
T_block_comment ==
    <<"/","*"," ","c">>

\* /* c */ ab\n
T_block_comment_ab ==
    <<"/","*"," ","c"," ","*","/"," ","a","b","\n">>

\* 1.5
T_number ==
    <<"1",".","5">>

\* 1.5\n
T_number_nl ==
    <<"1",".","5","\n">>

\* 1a\n
T_number_hex ==
    <<"1","a","\n">>

\* abc
T_ident ==
    <<"a","b","c">>

\* "a\\nb"\n
T_string_escape ==
    <<"\"","a","\\","n","b","\"","\n">>

\* "a\\"b"\n
T_string_quote ==
    <<"\"","a","\\","\"","b","\"","\n">>

\* "s" ab\n
T_string_ab ==
    <<"\"","s","\""," ","a","b","\n">>

\* fn binary| 5\n
T_fn_binary_end ==
    <<"f","n"," ","b","i","n","a","r","y","|"," ","5","\n">>

\* fn binary|\n
T_fn_binary_op_end ==
    <<"f","n"," ","b","i","n","a","r","y","|","\n">>

\* extern binary| 5.7 (a: num)\n
T_extern_binary_frac ==
    <<"e","x","t","e","r","n"," ","b","i","n","a","r","y","|"," ","5",".","7",
      " ","(","a",":"," ","n","u","m",")","\n">>

\* "12" 5\n
T_string_number ==
    <<"\"","1","2","\""," ","5","\n">>

\* "\\q (\n
T_bad_escape ==
    <<"\"","\\","q"," ","(","\n">>

\* "\\q ab\n
T_bad_escape_ab ==
    <<"\"","\\","q"," ","a","b","\n">>

\* "\\x41"\n
T_escape_x ==
    <<"\"","\\","x","4","1","\"","\n">>

\*  \n
T_blank ==
    <<" ","\n">>

\* lru!3 fn add(x: num , y: num) { x+y }\n
T_lru_3 ==
    <<"l","r","u","!","3"," ","f","n"," ","a","d","d","(","x",":"," ","n",
      "u","m"," ",","," ","y",":"," ","n","u","m",")"," ","{"," ","x","+",
      "y"," ","}","\n">>

\* lru!3 fn add(x: num, y: num) { x+y }
T_lru_3_spec ==
    <<"l","r","u","!","3"," ","f","n"," ","a","d","d","(","x",":"," ","n",
      "u","m",","," ","y",":"," ","n","u","m",")"," ","{"," ","x","+","y",
      " ","}">>

\* lru fn f() { 1 }\n
T_lru_plain ==
    <<"l","r","u"," ","f","n"," ","f","(",")"," ","{"," ","1"," ","}","\n">>

\* mfu!2.5 fn f() { 1 }\n
T_mfu_frac ==
    <<"m","f","u","!","2",".","5"," ","f","n"," ","f","(",")"," ","{"," ",
      "1"," ","}","\n">>

\* lru! fn f() { 1 }\n
T_lru_bang_fn ==
    <<"l","r","u","!"," ","f","n"," ","f","(",")"," ","{"," ","1"," ","}",
      "\n">>

\* lru !\n
T_lru_bang ==
    <<"l","r","u"," ","!","\n">>

\* f()\n
T_call_empty ==
    <<"f","(",")","\n">>

\* fn g() { f() }\n
T_call_empty_body ==
    <<"f","n"," ","g","(",")"," ","{"," ","f","(",")"," ","}","\n">>

\* f(x)!\n
T_call_bang ==
    <<"f","(","x",")","!","\n">>

\* fn g() { f(x)! }\n
T_call_bang_body ==
    <<"f","n"," ","g","(",")"," ","{"," ","f","(","x",")","!"," ","}","\n">>

\* fn g() { f(x , 1) }\n
T_call_body ==
    <<"f","n"," ","g","(",")"," ","{"," ","f","(","x"," ",","," ","1",")",
      " ","}","\n">>

\* -1 + !x\n
T_unary ==
    <<"-","1"," ","+"," ","!","x","\n">>

\* (1 + 2) * 3\n
T_paren ==
    <<"(","1"," ","+"," ","2",")"," ","*"," ","3","\n">>

\* if a then 1 else 2\n
T_if ==
    <<"i","f"," ","a"," ","t","h","e","n"," ","1"," ","e","l","s","e"," ",
      "2","\n">>

\* if a then 1\n
T_if_no_else ==
    <<"i","f"," ","a"," ","t","h","e","n"," ","1","\n">>

\* for i = 1 , 3 in i\n
T_for ==
    <<"f","o","r"," ","i"," ","="," ","1"," ",","," ","3"," ","i","n"," ",
      "i","\n">>

\* for i = 1 , 3 , 2 in i\n
T_for_step ==
    <<"f","o","r"," ","i"," ","="," ","1"," ",","," ","3"," ",","," ","2",
      " ","i","n"," ","i","\n">>

\* var a = 1 , b in a\n
T_var ==
    <<"v","a","r"," ","a"," ","="," ","1"," ",","," ","b"," ","i","n"," ",
      "a","\n">>

\* var a = 1\n
T_var_end ==
    <<"v","a","r"," ","a"," ","="," ","1","\n">>

Texts ==
    {T_proto_open, T_extern_only, T_call_args, T_def_no_rbrace, 
     T_def_wrong_rbrace, T_def_ok, T_def_params, T_def_no_colon, 
     T_def_no_lbrace, T_def_no_lparen, T_binary_spec, T_fn_binary_comma, 
     T_fn_binary_5, T_fn_binary_0, T_fn_binary_plus, T_fn_binary_err, 
     T_fn_unary, T_bar_plus, T_extern_foo, T_ident_unclosed, T_unclosed, 
     T_line_comment, T_line_comment_nl, T_block_comment, 
     T_block_comment_ab, T_number, T_number_nl, T_number_hex, T_ident, 
     T_string_escape, T_string_quote, T_string_ab, T_string_number,
     T_fn_binary_end, T_fn_binary_op_end, T_extern_binary_frac, T_bad_escape, 
     T_bad_escape_ab, T_escape_x, T_blank, T_lru_3, T_lru_3_spec, 
     T_lru_plain, T_mfu_frac, T_lru_bang_fn, T_lru_bang, T_call_empty, 
     T_call_empty_body, T_call_bang, T_call_bang_body, T_call_body, 
     T_unary, T_paren, T_if, T_if_no_else, T_for, T_for_step, T_var, 
     T_var_end}

\* Bounds of the model.
MaxRounds == 2

MaxOps == 3

MaxNone == 2

\* The operator characters of the generated chains.
OpChars == {"+", "*", "|"}

OperandChars == <<"1", "2", "3", "4", "5", "6", "7", "8", "9">>

\* The text `1 op[1] 2 op[2] 3 ...`, in parentheses when wrapped, then "\n".
RECURSIVE ChainBody(_, _)
ChainBody(ops, i) ==
    IF i > Len(ops) THEN <<>>
    ELSE <<ops[i], OperandChars[i + 1]>> \o ChainBody(ops, i + 1)

ChainText(ops, wrapped) ==
    LET body == <<OperandChars[1]>> \o ChainBody(ops, 1)
    IN  IF wrapped THEN <<"(">> \o body \o <<")", "\n">> ELSE body \o <<"\n">>

Chains == UNION {[1..n -> OpChars] : n \in 1..MaxOps}

ChainTexts == {ChainText(ops, w) : ops \in Chains, w \in BOOLEAN}

(***************************************************************************)
(* The state: a client that, round after round, takes a text, may pull     *)
(* tokens from a Lexer over it (main.rs:35), builds a Parser over it with  *)
(* the shared table and parses (main.rs:37).                               *)
(***************************************************************************)
VARIABLES
    pc,       \* "start", "lexing", "constructed", "parsed", "panicked", "hung"
    rounds,   \* the texts read so far
    line,     \* the text of this round
    prec,     \* the precedence table (main.rs, `prec`)
    before,   \* the table as it was when this round's Parser was built
    lexer,    \* the Lexer of this round
    lexed,    \* the answers of lex() on it, in order
    nexts,    \* the answers of Iterator::next on it, in order
    parser,   \* the Parser of this round
    result    \* what parse() returned

vars == <<pc, rounds, line, prec, before, lexer, lexed, nexts, parser, result>>

\* main.rs:15-22
DefaultPrec ==
    [c \in {"=", "<", "+", "-", "*", "/"} |->
        CASE c = "=" -> 2 [] c = "<" -> 10 [] c = "+" -> 20
          [] c = "-" -> 20 [] c = "*" -> 40 [] c = "/" -> 40]

NoParser == [tokens |-> <<>>, pos |-> 0, prec |-> DefaultPrec]

NoResult == [r |-> "None", v |-> Unit, msg |-> <<>>]

Init ==
    /\ pc = "start"
    /\ rounds = 0
    /\ line = <<>>
    /\ prec = DefaultPrec
    /\ before = DefaultPrec
    /\ lexer = Lexer_new(<<>>)
    /\ lexed = <<>>
    /\ nexts = <<>>
    /\ parser = NoParser
    /\ result = NoResult

\* A round starts: a text is read and a Lexer made over it.
ReadLine(text) ==
    /\ pc = "start"
    /\ rounds < MaxRounds
    /\ pc' = "lexing"
    /\ rounds' = rounds + 1
    /\ line' = text
    /\ lexer' = Lexer_new(text)
    /\ lexed' = <<>>
    /\ nexts' = <<>>
    /\ result' = NoResult
    /\ UNCHANGED <<prec, before, parser>>

NoneCount == Cardinality({i \in 1..Len(nexts) : nexts[i].res = "None"})

\* One call of Iterator::next (and so of lex) on the Lexer.
LexerNext ==
    /\ pc = "lexing"
    /\ NoneCount < MaxNone
    /\ \E l \in {lex(lexer)} :
         \E n \in {NextOf(l)} :
           /\ lexer' = n.lx
           /\ lexed' = Append(lexed, [res |-> l.res, tok |-> l.tok, err |-> l.err,
                                      chars |-> l.lx.chars, pos |-> l.lx.pos])
           /\ nexts' = Append(nexts, [res |-> n.res, tok |-> n.tok])
           /\ pc' = CASE n.res = "Panic" -> "panicked"
                      [] n.res = "Hang" -> "hung"
                      [] OTHER -> "lexing"
    /\ UNCHANGED <<rounds, line, prec, before, parser, result>>

\* Parser::new over the text of the round, borrowing the table.
ParserNew ==
    /\ pc = "lexing"
    /\ IF nexts = <<>> THEN TRUE ELSE nexts[Len(nexts)].res = "None"
    /\ \E n \in {Parser_new(line, prec)} :
           /\ parser' = n.p
           /\ pc' = CASE n.res = "Panic" -> "panicked"
                      [] n.res = "Hang" -> "hung"
                      [] OTHER -> "constructed"
    /\ before' = prec
    /\ UNCHANGED <<rounds, line, prec, lexer, lexed, nexts, result>>

\* Parser::parse; the table is the one the parser leaves.
ParserParse ==
    /\ pc = "constructed"
    /\ \E r \in {parse(parser)} :
           /\ parser' = r.p
           /\ prec' = r.p.prec
           /\ result' = [r |-> r.r, v |-> r.v, msg |-> r.msg]
           /\ pc' = IF r.r = "Panic" THEN "panicked" ELSE "parsed"
    /\ UNCHANGED <<rounds, line, before, lexer, lexed, nexts>>

\* The result is printed and the arm of the loop ends: the line, the tokens
\* and the parser are dropped, the table stays.
PrintResult ==
    /\ pc = "parsed"
    /\ pc' = "start"
    /\ line' = <<>>
    /\ before' = prec
    /\ lexer' = Lexer_new(<<>>)
    /\ lexed' = <<>>
    /\ nexts' = <<>>
    /\ parser' = NoParser
    /\ result' = NoResult
    /\ UNCHANGED <<rounds, prec>>

Next ==
    \/ \E text \in Texts \cup ChainTexts : ReadLine(text)
    \/ LexerNext
    \/ ParserNew
    \/ ParserParse
    \/ PrintResult

Spec == Init /\ [][Next]_vars

TypeOK ==
    /\ pc \in {"start", "lexing", "constructed", "parsed", "panicked", "hung"}
    /\ rounds \in 0..MaxRounds
    /\ lexer.pos <= lexer.chars
    /\ lexer.chars <= Len(lexer.input)

(***************************************************************************)
(* Properties.                                                             *)
(***************************************************************************)
\* parse() has been called in this round.
Parsed == result.r # "None"

\* The index of the first None among the answers of next(), 0 when none.
FirstNone ==
    IF \E i \in 1..Len(nexts) : nexts[i].res = "None"
      THEN CHOOSE i \in 1..Len(nexts) :
             nexts[i].res = "None" /\ \A j \in 1..(i - 1) : nexts[j].res # "None"
      ELSE 0

\* msg names the token kind.
Names(msg, type) == \E i \in 1..Len(msg) : msg[i] = type

\* The operand `d` of a chain, as the parser builds it.
Operand(d) == Expr_Number(Normalize(DigitVal(d), 0))

\* The wrapped top-level expression parse() returns for e.
Anonymous(e) ==
    Function(Prototype(ANONYMOUS_FUNCTION_NAME, <<>>, FALSE, 0), <<e>>, TRUE,
             Cache("None", 0))

(***************************************************************************)
(* The reference precedence grammar: the root of operand (op operand)* is  *)
(* the last of its operators of lowest precedence.  So a higher operator   *)
(* binds tighter than a lower neighbour and equal ones associate left.     *)
(***************************************************************************)
RefPrec(table, op) == IF op \in DOMAIN table THEN table[op] ELSE 100

RefRoot(table, ops, lo, hi) ==
    CHOOSE k \in lo..hi :
      /\ \A j \in lo..hi : RefPrec(table, ops[k]) <= RefPrec(table, ops[j])
      /\ \A j \in (k + 1)..hi : RefPrec(table, ops[k]) < RefPrec(table, ops[j])

\* The tree of operands lo..hi+1 joined by the operators lo..hi.
RECURSIVE RefTree(_, _, _, _)
RefTree(table, ops, lo, hi) ==
    IF lo > hi THEN Operand(OperandChars[lo])
    ELSE Expr_Binary(ops[RefRoot(table, ops, lo, hi)],
                     RefTree(table, ops, lo, RefRoot(table, ops, lo, hi) - 1),
                     RefTree(table, ops, RefRoot(table, ops, lo, hi) + 1, hi))

\* C1: Parser::new followed by parse() returns Ok(Function) or Err(message):
\* the token buffer is never read at a cursor index >= its length.
C1_ParseReturns == Parsed => result.r \in {"Ok", "Err"}

\* parse() of `fn f(` reads tokens[3] of a buffer of 3 tokens.
C1_Panics ==
    /\ line = T_proto_open
    /\ result.r = "Panic"
    /\ parser.pos >= Len(parser.tokens)

C3_BinaryHeader ==
    (Parsed /\ line = T_binary_spec) =>
      /\ result.r = "Ok"
      /\ result.v.prototype.name = <<"b","i","n","a","r","y","|">>
      /\ result.v.prototype.prec = 5
      /\ "|" \in DOMAIN prec
      /\ prec["|"] = 5

\* parse() of that text returns Err and the table is as it was.
C3_Rejected ==
    /\ Parsed
    /\ line = T_binary_spec
    /\ result.r = "Err"
    /\ prec = before

\* C4: when the tokenizer ends on a lexical error, parse() returns a failure.
C4_LexErrorFails ==
    (Parsed /\ FirstNone > 0 /\ lexed[FirstNone].res = "Err") => result.r = "Err"

\* `foo "abc`: the tokenizer ends on "unclosed string" and parse() returns Ok
\* with the variable foo.
C4_PartialAst ==
    /\ Parsed
    /\ line = T_ident_unclosed
    /\ FirstNone > 0
    /\ lexed[FirstNone].err = "unclosed string"
    /\ result.r = "Ok"
    /\ result.v.body = <<Expr_Variable(<<"f","o","o">>)>>

\* C5: parsing a definition whose body is not followed by `}` returns Err
\* with a message that names RBrace.
C5_MissingRBrace ==
    (Parsed /\ line \in {T_def_no_rbrace, T_def_wrong_rbrace}) =>
      /\ result.r = "Err"
      /\ Names(result.msg, "RBrace")

\* With `)` where `}` is expected, the message is the one of the trailing
\* token check.
C5_OtherMessage ==
    /\ Parsed
    /\ line = T_def_wrong_rbrace
    /\ result.r = "Err"
    /\ result.msg = <<"Unexpected token after parsed expression.">>

\* C6: parse() returns Ok for a definition only if `(` follows the prototype
\* name, `:` stands between every parameter name and its type, `{` precedes
\* the body and `}` follows it; the definitions that lack one are rejected
\* with Err.
C6_DelimitersRequired ==
    (Parsed /\ line \in {T_def_no_colon, T_def_no_lbrace, T_def_no_lparen}) =>
      result.r = "Err"

\* `fn f(x num) { 1 }` is accepted, with the parameter (x, num).
C6_Accepted ==
    /\ Parsed
    /\ line = T_def_no_colon
    /\ result.r = "Ok"
    /\ result.v.prototype.args = <<<<<<"x">>, <<"n","u","m">>>>>>

\* C7: every call of lex() returns, so Parser::new and parse() complete.
C7_LexReturns == pc # "hung"

\* lex() on `// c` has consumed the text and loops in the comment branch.
C7_Loops ==
    /\ pc = "hung"
    /\ line = T_line_comment
    /\ lexed # <<>>
    /\ lexed[Len(lexed)].res = "Hang"
    /\ lexed[Len(lexed)].chars = Len(line)

\* C8: the tokenizer yields Number(1.5) as the first token of `1.5`, and the
\* identifier as the first token of a text that is one identifier.
C8_LastTokenEmitted ==
    /\ (line = T_number /\ nexts # <<>>) =>
         nexts[1] = [res |-> "Some", tok |-> Number(Normalize(15, -1))]
    /\ (line = T_ident /\ nexts # <<>>) =>
         nexts[1] = [res |-> "Some", tok |-> Ident(<<"a","b","c">>)]

\* The first next() on `1.5` is None, with the three characters consumed.
C8_Dropped ==
    /\ line = T_number
    /\ nexts # <<>>
    /\ nexts[1].res = "None"
    /\ lexed[1].res = "Ok"
    /\ lexed[1].tok = Tok("EOF")
    /\ lexed[1].chars = 3

\* C9: the first token of `"a\"b"` is Str with value a"b.
C9_EscapedQuoteKept ==
    (line = T_string_quote /\ nexts # <<>>) =>
      nexts[1] = [res |-> "Some", tok |-> Str(<<"a", "\"", "b">>)]

\* The first token of that text is Str with value a.
C9_EndsAtEscapedQuote ==
    /\ line = T_string_quote
    /\ nexts # <<>>
    /\ nexts[1] = [res |-> "Some", tok |-> Str(<<"a">>)]

\* C10: once next() has returned None, no later next() on the same Lexer
\* returns a token.
C10_NoneIsFinal ==
    \A i, j \in 1..Len(nexts) :
      (i < j /\ nexts[i].res = "None") => nexts[j].res # "Some"

\* After the None of the lex error of `"\q ab`, next() returns an identifier.
C10_TokenAfterNone ==
    /\ line = T_bad_escape_ab
    /\ Len(nexts) >= 2
    /\ nexts[1].res = "None"
    /\ lexed[1].res = "Err"
    /\ nexts[2].res = "Some"
    /\ nexts[2].tok.type = "Ident"

\* The integer n as a literal's value.
Literal(n) == Normalize(n, 0)

\* C11: the Cache of a definition follows from its leading tokens: K ! n gives
\* policy K with capacity n (n a whole number), K ! not followed by a numeric
\* literal is an Err, K alone gives capacity -1 and plain fn gives Lru with
\* capacity -1.
C11_CacheDescriptor ==
    (Parsed /\ parser.tokens # <<>>
            /\ parser.tokens[1].type \in {"Fn", "Lru", "Mru", "Lfu", "Mfu"}) =>
      IF parser.tokens[1].type = "Fn"
        THEN result.r = "Ok" => result.v.cache = Cache("Lru", -1)
      ELSE IF Len(parser.tokens) >= 2 /\ parser.tokens[2].type = "Bang"
        THEN IF Len(parser.tokens) >= 3 /\ parser.tokens[3].type = "Number"
               THEN (result.r = "Ok" /\ parser.tokens[3].num.e >= 0) =>
                      /\ result.v.cache.policy = parser.tokens[1].type
                      /\ Literal(result.v.cache.capacity) = parser.tokens[3].num
               ELSE result.r = "Err"
      ELSE result.r = "Ok" => result.v.cache = Cache(parser.tokens[1].type, -1)

\* parse() of `lru !` reads tokens[2] of a buffer of 2 tokens.
C11_BangAtEnd ==
    /\ Parsed
    /\ line = T_lru_bang
    /\ Len(parser.tokens) = 2
    /\ parser.pos = 2
    /\ result.r = "Panic"

\* C12: `f()` parses to the Call of f with no arguments, as the body of a
\* definition and as a top-level expression whose `)` is the last token.
C12_EmptyCall ==
    /\ (Parsed /\ line = T_call_empty) =>
         /\ result.r = "Ok"
         /\ result.v = Anonymous(Expr_Call(<<"f">>, <<>>, FALSE))
    /\ (Parsed /\ line = T_call_empty_body) =>
         /\ result.r = "Ok"
         /\ result.v.body = <<Expr_Call(<<"f">>, <<>>, FALSE)>>

\* parse() of `f()` answers the Err of the advance past `)`.
C12_EndOfFile ==
    /\ Parsed
    /\ line = T_call_empty
    /\ Len(parser.tokens) = 3
    /\ result.r = "Err"
    /\ result.msg = EndOfFile

\* C13: `f(x)!` parses, as a top-level expression and as a body, to a Call
\* whose bang flag is true, and a call without the `!` has the flag false.
C13_TrailingBang ==
    /\ (Parsed /\ line = T_call_bang) =>
         /\ result.r = "Ok"
         /\ result.v = Anonymous(Expr_Call(<<"f">>, <<Expr_Variable(<<"x">>)>>, TRUE))
    /\ (Parsed /\ line = T_call_bang_body) =>
         /\ result.r = "Ok"
         /\ result.v.body = <<Expr_Call(<<"f">>, <<Expr_Variable(<<"x">>)>>, TRUE)>>
    /\ (Parsed /\ line = T_call_body) =>
         /\ result.r = "Ok"
         /\ result.v.body[1].bang = FALSE

\* parse() of `fn g() { f(x)! }` ends with the cursor still on the `!` and
\* answers the Err of the trailing token check.
C13_BangNotConsumed ==
    /\ Parsed
    /\ line = T_call_bang_body
    /\ InBounds(parser)
    /\ curr(parser).type = "Bang"
    /\ result.r = "Err"
    /\ result.msg = <<"Unexpected token after parsed expression.">>

\* The characters the i-th lex() call scanned for its token: those it
\* consumed, less the whitespace it skipped first.
Scanned(i) ==
    SubSeq(line,
           (IF i = 1 THEN 0 ELSE lexed[i - 1].chars)
             + Span(Drop(line, IF i = 1 THEN 0 ELSE lexed[i - 1].chars), Whitespace)
             + 1,
           lexed[i].chars)

\* C14: after every lex() call that returns, the stored pos is the number of
\* characters consumed so far; every Ident carries the characters scanned for
\* it and every Number is the value of the characters scanned for it.
C14_PosIsConsumed ==
    \A i \in 1..Len(lexed) :
      lexed[i].res \in {"Ok", "Err"} =>
        /\ lexed[i].pos = lexed[i].chars
        /\ lexed[i].tok.type = "Ident" => lexed[i].tok.text = Scanned(i)
        /\ lexed[i].tok.type = "Number" =>
             lexed[i].tok.num = ParseF64(Scanned(i)).num

\* After the string of `"s" ab` pos is still 0 with 3 characters consumed, and
\* the identifier scanned as ab carries the slice s".
C14_StaleSlice ==
    /\ line = T_string_ab
    /\ Len(lexed) >= 2
    /\ lexed[1].tok = Str(<<"s">>)
    /\ lexed[1].pos = 0
    /\ lexed[1].chars = 3
    /\ Scanned(2) = <<"a", "b">>
    /\ lexed[2].tok = Ident(<<"s", "\"">>)

\* The number scanned as 5 after the string of `"12" 5` is Number(1).
C14_StaleNumber ==
    /\ line = T_string_number
    /\ Len(lexed) >= 2
    /\ Scanned(2) = <<"5">>
    /\ lexed[2].tok = Number(Literal(1))

\* The index in the tokens t of the first token of the prototype that parse()
\* comes to, 0 when it comes to none: after fn or extern, after a cache
\* keyword and the token behind it, or after K ! n and the token behind them.
ProtoStart(t) ==
    IF t = <<>> THEN 0
    ELSE IF t[1].type \in {"Fn", "Extern"} THEN 2
    ELSE IF t[1].type \notin {"Lru", "Mru", "Lfu", "Mfu"} THEN 0
    ELSE IF Len(t) >= 2 /\ t[2].type = "Bang"
      THEN IF Len(t) >= 3 /\ t[3].type = "Number" THEN 5 ELSE 0
    ELSE 3

\* The prototype starts with `binary` and an operator symbol.
HasBinaryHeader(t) ==
    /\ ProtoStart(t) > 0
    /\ Len(t) >= ProtoStart(t) + 1
    /\ t[ProtoStart(t)].type = "Binary"
    /\ t[ProtoStart(t) + 1].type = "Op"

HeaderOp(t) == t[ProtoStart(t) + 1].text[1]

\* The literal of the header truncated to an integer, 0 when it is omitted.
HeaderValue(t) ==
    IF Len(t) >= ProtoStart(t) + 2 /\ t[ProtoStart(t) + 2].type = "Number"
      THEN Trunc(t[ProtoStart(t) + 2].num)
      ELSE 0

\* The table that differs from `table` at the symbol of the header only, where
\* it has the header's value.
HeaderTable(table, t) ==
    [c \in DOMAIN table \cup {HeaderOp(t)} |->
        IF c = HeaderOp(t) THEN HeaderValue(t) ELSE table[c]]

\* A token follows the header (the symbol, and the literal when there is one).
HeaderFollowed(t) ==
    /\ Len(t) >= ProtoStart(t) + 2
    /\ t[ProtoStart(t) + 2].type = "Number" => Len(t) >= ProtoStart(t) + 3

\* C15 as stated: parse() leaves the table it was given, with the symbol of a
\* `binary` header set to the header's value when the tokens have such a
\* header, whatever parse() returns, and unchanged when they have none.
C15_HeaderWrites ==
    Parsed =>
      prec = IF HasBinaryHeader(parser.tokens)
               THEN HeaderTable(before, parser.tokens)
               ELSE before

\* C15: parse() leaves the table it was given, with the symbol of a `binary`
\* header set to the header's value when the tokens have such a header and a
\* token follows it, whatever parse() returns, and unchanged otherwise.
C15_FollowedHeaderWrites ==
    Parsed =>
      prec = IF HasBinaryHeader(parser.tokens) /\ HeaderFollowed(parser.tokens)
               THEN HeaderTable(before, parser.tokens)
               ELSE before

\* parse() of `fn binary| 5 (a: num, b: num) { a }` has returned Err in the
\* parameter list and has left '|' at 5 in a table that had '|' at 0.
C15_WrittenBeforeErr ==
    /\ Parsed
    /\ line = T_fn_binary_comma
    /\ result.r = "Err"
    /\ "|" \in DOMAIN before
    /\ before["|"] = 0
    /\ prec["|"] = 5
    /\ \A c \in DOMAIN before \ {"|"} : prec[c] = before[c]

\* parse() of `fn binary| 5` has returned Err and the table has no '|'.
C15_NotWritten ==
    /\ Parsed
    /\ line = T_fn_binary_end
    /\ HasBinaryHeader(parser.tokens)
    /\ result.r = "Err"
    /\ prec = before
    /\ "|" \notin DOMAIN prec
====
